---- MODULE Spec2Model ----
(***************************************************************************)
(* A model of slidingwindow/SlidingWindow.py: the window layout functions  *)
(* generateForSize and generateForNumberOfWindows, the generator           *)
(* iterate_dims, and SlidingWindow.indices.                                *)
(*                                                                         *)
(* One call is one behaviour.  Init draws the arguments of the call, the   *)
(* actions are the statements of the function in program order, and pc is  *)
(* the position in the function.  A raised exception ends the call in      *)
(* pc = "error" with the exception's name in error.                        *)
(*                                                                         *)
(* overlapPercent is a rational: the variable holds its numerator over the *)
(* fixed denominator OvDen.                                                *)
(***************************************************************************)
EXTENDS Integers, Sequences, FiniteSets

VARIABLES
    pc,              \* position in the call
    error,           \* name of the exception raised, "" when none
    \* ---- arguments of generateForSize
    width, height, dimOrder, maxWindowSize, overlapPercent, transforms,
    overrideWidth, overrideHeight, iterorder,
    \* ---- locals of generateForSize
    windowSizeX, windowSizeY, stepSizeX, stepSizeY, lastX, lastY,
    xOffsets, yOffsets,
    cur,             \* the next value of the range() being listed
    pos,             \* iterate_dims: indices <<ix, iy, it>> of the next yield
    windows,         \* the list being built, returned when pc = "done"
    \* ---- arguments of generateForNumberOfWindows
    data, windowCount,
    \* ---- SlidingWindow.indices: the window, the flag, the returned tuple
    self, includeChannel, slices

args == <<width, height, dimOrder, maxWindowSize, overlapPercent, transforms,
          overrideWidth, overrideHeight, iterorder>>
locals == <<windowSizeX, windowSizeY, stepSizeX, stepSizeY, lastX, lastY,
            xOffsets, yOffsets, cur, pos, windows>>
countArgs == <<data, windowCount>>
indexVars == <<self, includeChannel, slices>>
vars == <<pc, error, args, locals, countArgs, indexVars>>

---------------------------------------------------------------------------
\* Bounds of the model.
MaxDim == 4
MaxWin == 3
OvDen == 4
MaxOvNum == 6
MaxTransforms == 1
MaxCount == 4
MaxChannels == 1
MaxCoord == 1
MaxExtent == 2

---------------------------------------------------------------------------
\* Python values.

\* None, and an optional value v, as sequences of length 0 and 1.
None == <<>>
Some(v) == <<v>>

ChannelHeightWidth == <<"c", "h", "w">>
HeightWidthChannel == <<"h", "w", "c">>

TransformHeightWidth == <<"t", "y", "x">>
TransformWidthHeight == <<"t", "x", "y">>

\* An order that is neither of the enumerated ones.
OtherOrder == <<"w", "h">>

Min(a, b) == IF a <= b THEN a ELSE b

\* The overlap rounded up instead of down.
FloorOverlap_Ceil(size, num) == 0 - ((0 - size * num) \div OvDen)

\* int(math.floor(size * overlapPercent)), overlapPercent = num / OvDen
FloorOverlap(size, num) == (size * num) \div OvDen

\* math.ceil(a / b) for b > 0
CeilDiv(a, b) == 0 - ((0 - a) \div b)

\* list.index
Index(seq, v) == CHOOSE i \in 1..Len(seq) : seq[i] = v /\ \A j \in 1..(i-1) : seq[j] # v

Last(seq) == seq[Len(seq)]

\* A loop 'while c < stop' that forgets the sign of the step.
RangeHasNext_NoSign(c, stop, step) == c < stop

\* range(start, stop, step), step # 0: whether c is still inside the range
RangeHasNext(c, stop, step) == IF step > 0 THEN c < stop ELSE c > stop

\* range() raises ValueError for a zero step
RangeRaises(step) == step = 0

---------------------------------------------------------------------------
\* generateForSize

NoLocals ==
    /\ windowSizeX = 0 /\ windowSizeY = 0
    /\ stepSizeX = 0 /\ stepSizeY = 0
    /\ lastX = 0 /\ lastY = 0
    /\ xOffsets = <<>> /\ yOffsets = <<>>
    /\ cur = 0 /\ pos = <<1, 1, 1>>
    /\ windows = <<>>

NoCountArgs == data = <<>> /\ windowCount = <<>>

NoIndexVars == self = <<>> /\ includeChannel = FALSE /\ slices = <<>>

TransformList(n) == [k \in 1..n |-> Some(k)]

WindowArgs ==
    {<<m, None, None>> : m \in -1..MaxWin}
    \cup {<<0, Some(w), Some(h)>> : w \in -1..MaxWin, h \in -1..MaxWin}

InitSize ==
    /\ pc = "generateForSize"
    /\ error = ""
    /\ width \in -1..MaxDim
    /\ height \in -1..MaxDim
    /\ dimOrder \in {ChannelHeightWidth, HeightWidthChannel}
    /\ \E a \in WindowArgs :
          /\ maxWindowSize = a[1]
          /\ overrideWidth = a[2]
          /\ overrideHeight = a[3]
    /\ overlapPercent \in -1..MaxOvNum
    /\ transforms \in {TransformList(n) : n \in 0..MaxTransforms}
    /\ iterorder \in {TransformHeightWidth, TransformWidthHeight, OtherOrder}
    /\ NoLocals
    /\ NoCountArgs
    /\ NoIndexVars

Raise(name) ==
    /\ pc' = "error"
    /\ error' = name

\* lines 130-131: the override when given, else the square size
WindowSize(maxSize, override) == IF override = None THEN maxSize ELSE override[1]

\* The window size left unclipped.
Clip_None(size, extent) == size

\* lines 135-136: min(windowSize, extent)
Clip(size, extent) == Min(size, extent)

\* lines 141-142
StepSize(size, overlap) == size - overlap

\* The last offset one past the last valid one.
LastOffset_OffByOne(extent, size) == extent - size + 1

\* lines 145-146
LastOffset(extent, size) == extent - size

\* lines 129-147: window size, clipping, overlap, step, last offsets, and the
\* construction of range(0, lastX+1, stepSizeX)
Setup ==
    /\ pc = "generateForSize"
    /\ LET sx == Clip(WindowSize(maxWindowSize, overrideWidth), width)
           sy == Clip(WindowSize(maxWindowSize, overrideHeight), height)
       IN /\ windowSizeX' = sx
          /\ windowSizeY' = sy
          /\ stepSizeX' = StepSize(sx, FloorOverlap(sx, overlapPercent))
          /\ stepSizeY' = StepSize(sy, FloorOverlap(sy, overlapPercent))
          /\ lastX' = LastOffset(width, sx)
          /\ lastY' = LastOffset(height, sy)
    /\ cur' = 0
    /\ IF RangeRaises(stepSizeX')
         THEN Raise("ValueError")
         ELSE pc' = "rangeX" /\ error' = error
    /\ UNCHANGED <<args, xOffsets, yOffsets, pos, windows, countArgs, indexVars>>

\* line 147: list(range(0, lastX+1, stepSizeX)), one element
RangeXStep ==
    /\ pc = "rangeX"
    /\ RangeHasNext(cur, lastX + 1, stepSizeX)
    /\ xOffsets' = Append(xOffsets, cur)
    /\ cur' = cur + stepSizeX
    /\ UNCHANGED <<pc, error, args, windowSizeX, windowSizeY, stepSizeX, stepSizeY,
                   lastX, lastY, yOffsets, pos, windows, countArgs, indexVars>>

\* line 147 exhausted; line 148 constructs range(0, lastY+1, stepSizeY)
RangeXDone ==
    /\ pc = "rangeX"
    /\ ~RangeHasNext(cur, lastX + 1, stepSizeX)
    /\ cur' = 0
    /\ IF RangeRaises(stepSizeY)
         THEN Raise("ValueError")
         ELSE pc' = "rangeY" /\ error' = error
    /\ UNCHANGED <<args, windowSizeX, windowSizeY, stepSizeX, stepSizeY,
                   lastX, lastY, xOffsets, yOffsets, pos, windows, countArgs, indexVars>>

\* line 148: list(range(0, lastY+1, stepSizeY)), one element
RangeYStep ==
    /\ pc = "rangeY"
    /\ RangeHasNext(cur, lastY + 1, stepSizeY)
    /\ yOffsets' = Append(yOffsets, cur)
    /\ cur' = cur + stepSizeY
    /\ UNCHANGED <<pc, error, args, windowSizeX, windowSizeY, stepSizeX, stepSizeY,
                   lastX, lastY, xOffsets, pos, windows, countArgs, indexVars>>

\* line 148 exhausted
RangeYDone ==
    /\ pc = "rangeY"
    /\ ~RangeHasNext(cur, lastY + 1, stepSizeY)
    /\ pc' = "append"
    /\ UNCHANGED <<error, args, locals, countArgs, indexVars>>

\* The last offset appended to an empty list only.
WithLast_OnlyWhenEmpty(offsets, last) ==
    IF Len(offsets) = 0 THEN Append(offsets, last) ELSE offsets

\* lines 152-155: the offsets with the last offset appended when it is missing
WithLast(offsets, last) ==
    IF Len(offsets) = 0 \/ Last(offsets) # last THEN Append(offsets, last) ELSE offsets

\* lines 152-158
AppendLast ==
    /\ pc = "append"
    /\ xOffsets' = WithLast(xOffsets, lastX)
    /\ yOffsets' = WithLast(yOffsets, lastY)
    /\ windows' = <<>>
    /\ pos' = <<1, 1, 1>>
    /\ pc' = "iterate"
    /\ UNCHANGED <<error, args, windowSizeX, windowSizeY, stepSizeX, stepSizeY,
                   lastX, lastY, cur, countArgs, indexVars>>

\* line 159: the list iterated as tVals
TVals == <<None>> \o transforms

\* The two branches of iterate_dims exchanged.
XOutermost_Swapped(order) == order # TransformHeightWidth

\* lines 110-112 and 115-117: whether the branch taken has the loop over
\* xVals outermost (it has the loop over yVals outermost otherwise)
XOutermost(order) == order = TransformHeightWidth

\* lines 109-121, iterate_dims: the indices of the yield that follows the one
\* at p = <<ix, iy, it>>; the innermost loop is over tVals, the outermost over
\* xVals (TransformHeightWidth) or yVals (TransformWidthHeight)
NextPos(p, nx, ny, nt, order) ==
    IF p[3] < nt THEN <<p[1], p[2], p[3] + 1>>
    ELSE IF XOutermost(order)
         THEN (IF p[2] < ny THEN <<p[1], p[2] + 1, 1>> ELSE <<p[1] + 1, 1, 1>>)
         ELSE (IF p[1] < nx THEN <<p[1] + 1, p[2], 1>> ELSE <<1, p[2] + 1, 1>>)

\* iterate_dims: the outermost loop has run out
Exhausted(p, nx, ny, order) ==
    IF XOutermost(order) THEN p[1] > nx ELSE p[2] > ny

\* lines 110, 115, 120: an order the generator has a branch for
KnownIterOrder(order) == order \in {TransformHeightWidth, TransformWidthHeight}

\* lines 25-34 and 160-167: SlidingWindow(x, y, w, h, dimOrder, transform)
SlidingWindow(x, y, w, h, order, transform) ==
    [x |-> x, y |-> y, w |-> w, h |-> h, dimOrder |-> order, transform |-> transform]

\* lines 120-121: the generator's first step raises for an unknown order; the
\* name Error is not defined in the module, so the exception is a NameError
IterateRaise ==
    /\ pc = "iterate"
    /\ ~KnownIterOrder(iterorder)
    /\ Raise("NameError")
    /\ UNCHANGED <<args, locals, countArgs, indexVars>>

\* lines 159-167: one iteration of the for loop over iterate_dims
IterateYield ==
    /\ pc = "iterate"
    /\ KnownIterOrder(iterorder)
    /\ ~Exhausted(pos, Len(xOffsets), Len(yOffsets), iterorder)
    /\ windows' = Append(windows,
                         SlidingWindow(xOffsets[pos[1]], yOffsets[pos[2]],
                                       windowSizeX, windowSizeY, dimOrder, TVals[pos[3]]))
    /\ pos' = NextPos(pos, Len(xOffsets), Len(yOffsets), Len(TVals), iterorder)
    /\ UNCHANGED <<pc, error, args, windowSizeX, windowSizeY, stepSizeX, stepSizeY,
                   lastX, lastY, xOffsets, yOffsets, cur, countArgs, indexVars>>

\* line 169: return windows
Return ==
    /\ pc = "iterate"
    /\ KnownIterOrder(iterorder)
    /\ Exhausted(pos, Len(xOffsets), Len(yOffsets), iterorder)
    /\ pc' = "done"
    /\ UNCHANGED <<error, args, locals, countArgs, indexVars>>

Next ==
    \/ Setup
    \/ RangeXStep
    \/ RangeXDone
    \/ RangeYStep
    \/ RangeYDone
    \/ AppendLast
    \/ IterateRaise
    \/ IterateYield
    \/ Return

Spec == InitSize /\ [][Next]_vars

---------------------------------------------------------------------------
\* generateForNumberOfWindows

\* data.shape of an array with c channels, h rows and w columns in the given order
Shape(order, c, h, w) ==
    [i \in 1..Len(order) |->
        IF order[i] = "c" THEN c ELSE IF order[i] = "h" THEN h ELSE w]

InitCount ==
    /\ pc = "generateForNumberOfWindows"
    /\ error = ""
    /\ dimOrder \in {ChannelHeightWidth, HeightWidthChannel}
    /\ \E c \in 1..MaxChannels, h \in 0..MaxDim, w \in 0..MaxDim :
          data = Shape(dimOrder, c, h, w)
    /\ windowCount \in (0..MaxCount) \X (0..MaxCount)
    /\ overlapPercent \in {0, OvDen \div 2}
    /\ transforms \in {TransformList(n) : n \in 0..MaxTransforms}
    /\ iterorder \in {TransformHeightWidth, TransformWidthHeight, OtherOrder}
    /\ width = 0 /\ height = 0
    /\ maxWindowSize = 0 /\ overrideWidth = None /\ overrideHeight = None
    /\ NoLocals
    /\ NoIndexVars

\* lines 204-224: the dimensions are read from data.shape, the window size is
\* math.ceil(width / countX) by math.ceil(height / countY) (a division by zero
\* raises ZeroDivisionError), and generateForSize is called with
\* maxWindowSize = 0 and the two overrides
GenerateForNumberOfWindows ==
    /\ pc = "generateForNumberOfWindows"
    /\ LET w == data[Index(dimOrder, "w")]
           h == data[Index(dimOrder, "h")]
           countY == windowCount[1]
           countX == windowCount[2]
       IN IF countX = 0 \/ countY = 0
            THEN /\ Raise("ZeroDivisionError")
                 /\ UNCHANGED <<width, height, maxWindowSize, overrideWidth, overrideHeight>>
            ELSE /\ width' = w
                 /\ height' = h
                 /\ maxWindowSize' = 0
                 /\ overrideWidth' = Some(CeilDiv(w, countX))
                 /\ overrideHeight' = Some(CeilDiv(h, countY))
                 /\ pc' = "generateForSize"
                 /\ error' = error
    /\ UNCHANGED <<dimOrder, overlapPercent, transforms, iterorder,
                   locals, countArgs, indexVars>>

NextCount ==
    \/ GenerateForNumberOfWindows
    \/ Next

SpecCount == InitCount /\ [][NextCount]_vars

---------------------------------------------------------------------------
\* SlidingWindow.indices

\* slice(start, stop); each bound is None or Some(integer)
Slice(start, stop) == [start |-> start, stop |-> stop]

InitIndices ==
    /\ pc = "indices"
    /\ error = ""
    /\ \E x \in 0..MaxCoord, y \in 0..MaxCoord, w \in 1..MaxExtent, h \in 1..MaxExtent,
          order \in {ChannelHeightWidth, HeightWidthChannel, OtherOrder} :
          self = SlidingWindow(x, y, w, h, order, None)
    /\ includeChannel \in BOOLEAN
    /\ slices = <<>>
    /\ width = 0 /\ height = 0 /\ dimOrder = self.dimOrder
    /\ maxWindowSize = 0 /\ overrideWidth = None /\ overrideHeight = None
    /\ overlapPercent = 0 /\ transforms = <<>> /\ iterorder = TransformWidthHeight
    /\ NoLocals
    /\ NoCountArgs

\* The slices with inclusive stops, as the comments of lines 61, 71, 80 read.
IndexTuple_Inclusive(win, withChannel) ==
    LET rows == [start |-> <<win.y>>, stop |-> <<win.y + win.h + 1>>]
        cols == [start |-> <<win.x>>, stop |-> <<win.x + win.w + 1>>]
    IN IF win.dimOrder = HeightWidthChannel THEN <<rows, cols>>
       ELSE IF withChannel = TRUE THEN <<[start |-> <<>>, stop |-> <<>>], rows, cols>>
       ELSE <<rows, cols>>

\* lines 59-84: the tuple of slices returned for a known order
IndexTuple(win, withChannel) ==
    LET rows == Slice(Some(win.y), Some(win.y + win.h))
        cols == Slice(Some(win.x), Some(win.x + win.w))
    IN IF win.dimOrder = HeightWidthChannel THEN <<rows, cols>>
       ELSE IF withChannel = TRUE THEN <<Slice(None, None), rows, cols>>
       ELSE <<rows, cols>>

\* lines 59, 67, 86: an order indices has a branch for
KnownDimOrder(order) == order \in {HeightWidthChannel, ChannelHeightWidth}

\* lines 55-84: indices returns
Indices ==
    /\ pc = "indices"
    /\ KnownDimOrder(self.dimOrder)
    /\ slices' = IndexTuple(self, includeChannel)
    /\ pc' = "done"
    /\ UNCHANGED <<error, args, locals, countArgs, self, includeChannel>>

\* lines 86-87: the name Error is not defined, so the raise is a NameError
IndicesRaise ==
    /\ pc = "indices"
    /\ ~KnownDimOrder(self.dimOrder)
    /\ Raise("NameError")
    /\ UNCHANGED <<args, locals, countArgs, indexVars>>

NextIndices ==
    \/ Indices
    \/ IndicesRaise

SpecIndices == InitIndices /\ [][NextIndices]_vars

---------------------------------------------------------------------------
\* The claims.

\* The window size the caller asked for, before clipping.
RequestedWidth == IF overrideWidth = None THEN maxWindowSize ELSE overrideWidth[1]
RequestedHeight == IF overrideHeight = None THEN maxWindowSize ELSE overrideHeight[1]

\* Dimensions and window size at least 1, overlap fraction in [0, 1).
ValidInputs ==
    /\ width >= 1 /\ height >= 1
    /\ RequestedWidth >= 1 /\ RequestedHeight >= 1
    /\ overlapPercent >= 0 /\ overlapPercent < OvDen

Returned == pc = "done"

Covers(win, i, j) ==
    /\ win.x <= i /\ i < win.x + win.w
    /\ win.y <= j /\ j < win.y + win.h

\* C1 (coverage): for valid inputs every pixel (i, j) of [0,width) x [0,height)
\* lies in at least one returned window.
C1_Coverage ==
    (Returned /\ ValidInputs) =>
        \A i \in 0..(width - 1), j \in 0..(height - 1) :
            \E k \in 1..Len(windows) : Covers(windows[k], i, j)

\* A returned layout whose last column of windows is the appended offset, which
\* is no multiple of the step.
C1_Witness ==
    /\ Returned /\ ValidInputs
    /\ Len(xOffsets) >= 2
    /\ Last(xOffsets) % stepSizeX # 0
    /\ Len(yOffsets) >= 2
    /\ Last(yOffsets) % stepSizeY # 0

\* C2 (no out-of-bounds windows): for valid inputs every returned window has
\* w > 0, h > 0, x >= 0, y >= 0, x + w <= width and y + h <= height.
C2_InBounds ==
    (Returned /\ ValidInputs) =>
        \A k \in 1..Len(windows) :
            /\ windows[k].w > 0 /\ windows[k].h > 0
            /\ windows[k].x >= 0 /\ windows[k].y >= 0
            /\ windows[k].x + windows[k].w <= width
            /\ windows[k].y + windows[k].h <= height

\* A returned layout with a window that ends exactly on the right and bottom
\* edges and does not start at the origin.
C2_Witness ==
    /\ Returned /\ ValidInputs
    /\ \E k \in 1..Len(windows) :
          /\ windows[k].x > 0 /\ windows[k].y > 0
          /\ windows[k].x + windows[k].w = width
          /\ windows[k].y + windows[k].h = height

\* The k-th element (k >= 1) of the nested cross product of the x offsets, the
\* y offsets and [None] + transforms: the transform index changes fastest, and
\* the x index (TransformHeightWidth) or the y index (TransformWidthHeight)
\* slowest.
CrossProduct(k) ==
    LET nx == Len(xOffsets)
        ny == Len(yOffsets)
        nt == Len(transforms) + 1
        it == (k - 1) % nt
        q == (k - 1) \div nt
        ix == IF iterorder = TransformHeightWidth THEN q \div ny ELSE q % nx
        iy == IF iterorder = TransformHeightWidth THEN q % ny ELSE q \div nx
    IN [x |-> xOffsets[ix + 1],
        y |-> yOffsets[iy + 1],
        transform |-> IF it = 0 THEN None ELSE transforms[it]]

\* C3 (iteration order): the list built so far is a prefix of the nested cross
\* product, and the returned list is all of it; so for each (x, y) the windows
\* are contiguous, in transform-list order, the None entry first.
C3_IterationOrder ==
    (pc \in {"iterate", "done"} /\ KnownIterOrder(iterorder)) =>
        /\ Len(windows) <= Len(xOffsets) * Len(yOffsets) * (Len(transforms) + 1)
        /\ Returned => Len(windows) = Len(xOffsets) * Len(yOffsets) * (Len(transforms) + 1)
        /\ \A k \in 1..Len(windows) :
              /\ windows[k].x = CrossProduct(k).x
              /\ windows[k].y = CrossProduct(k).y
              /\ windows[k].transform = CrossProduct(k).transform

\* A list returned for valid inputs over at least two x offsets, two y offsets
\* and one transform, in the x-outermost order.
C3_Witness ==
    /\ Returned /\ ValidInputs
    /\ iterorder = TransformHeightWidth
    /\ Len(xOffsets) >= 2 /\ Len(yOffsets) >= 2 /\ Len(transforms) >= 1
    /\ windows[2].transform = transforms[1]
    /\ windows[3].y = yOffsets[2]
    /\ windows[3].x = xOffsets[1]

\* floor(size * overlap fraction) for the clipped size of an axis
NominalOverlap(requested, extent) ==
    (Min(requested, extent) * overlapPercent) \div OvDen

\* Consecutive offsets, neither the last of the axis, are exactly
\* clipped size - floor(clipped size * overlap fraction) apart, so that the two
\* windows share floor(clipped size * overlap fraction) pixels.
ExactOverlap(offsets, requested, extent) ==
    \A i \in 1..(Len(offsets) - 2) :
        /\ offsets[i + 1] - offsets[i]
              = Min(requested, extent) - NominalOverlap(requested, extent)
        /\ (offsets[i] + Min(requested, extent)) - offsets[i + 1]
              = NominalOverlap(requested, extent)

\* C4 (bounded overlap): for valid inputs, two adjacent non-final offsets of an
\* axis are windowSize - floor(windowSize * overlapFraction) apart.
C4_BoundedOverlap ==
    (Returned /\ ValidInputs) =>
        /\ ExactOverlap(xOffsets, RequestedWidth, width)
        /\ ExactOverlap(yOffsets, RequestedHeight, height)

\* A returned layout with three or more offsets on each axis and a nonzero
\* overlap on one.
C4_Witness ==
    /\ Returned /\ ValidInputs
    /\ Len(xOffsets) >= 3 /\ Len(yOffsets) >= 3
    /\ NominalOverlap(RequestedWidth, width) > 0

\* C5 (clipping): every returned window is min(requested, extent) wide and
\* high; a request at least as large as the input, with no transforms, returns
\* the single window (0, 0, width, height).
C5_Clipping ==
    Returned =>
        /\ \A k \in 1..Len(windows) :
              /\ windows[k].w = Min(RequestedWidth, width)
              /\ windows[k].h = Min(RequestedHeight, height)
        /\ (ValidInputs /\ RequestedWidth >= width /\ RequestedHeight >= height
              /\ transforms = <<>>) =>
              /\ Len(windows) = 1
              /\ windows[1].x = 0 /\ windows[1].y = 0
              /\ windows[1].w = width /\ windows[1].h = height

\* A returned layout for a request larger than the input on both axes.
C5_Witness ==
    /\ Returned /\ ValidInputs
    /\ RequestedWidth > width /\ RequestedHeight > height
    /\ transforms = <<>>
    /\ Len(windows) = 1

\* C6 (count-derived sizing): with 1 <= countX <= width, 1 <= countY <= height
\* and overlap 0, the windows are ceil(width / countX) by ceil(height / countY)
\* and there are exactly countX x offsets and countY y offsets.
C6_CountDerivedSizing ==
    (/\ Returned
     /\ overlapPercent = 0
     /\ windowCount[2] >= 1 /\ windowCount[2] <= width
     /\ windowCount[1] >= 1 /\ windowCount[1] <= height) =>
        /\ windowSizeX = CeilDiv(width, windowCount[2])
        /\ windowSizeY = CeilDiv(height, windowCount[1])
        /\ Len(xOffsets) = windowCount[2]
        /\ Len(yOffsets) = windowCount[1]
        /\ Cardinality({xOffsets[i] : i \in 1..Len(xOffsets)}) = windowCount[2]
        /\ Cardinality({yOffsets[i] : i \in 1..Len(yOffsets)}) = windowCount[1]
        /\ (transforms = <<>> => Len(windows) = windowCount[2] * windowCount[1])

C8_InvalidDimensionsRejected ==
    (width <= 0 \/ height <= 0) => ~Returned

\* C9 (invalid overlap): a call with width, height and window size >= 1 and an
\* overlap fraction outside [0, 1) returns no window list.
C9_InvalidOverlapRejected ==
    (/\ width >= 1 /\ height >= 1
     /\ RequestedWidth >= 1 /\ RequestedHeight >= 1
     /\ (overlapPercent < 0 \/ overlapPercent >= OvDen)) => ~Returned

\* More than any loop of one call iterates within the bounds of the model.
Big == (MaxDim + MaxWin + 4) * (MaxDim + MaxWin + 4) * (MaxTransforms + 2)

\* What is left of the range being listed.
RangeLeft(c, stop, step) ==
    IF step > 0 THEN (IF c < stop THEN stop - c ELSE 0)
    ELSE (IF c > stop THEN c - stop ELSE 0)

\* A measure of the work left in a call: the statements still to run, then the
\* iterations left of the loop being run.
Measure ==
    CASE pc = "generateForSize" -> 5 * Big
      [] pc = "rangeX" -> 4 * Big + RangeLeft(cur, lastX + 1, stepSizeX)
      [] pc = "rangeY" -> 3 * Big + RangeLeft(cur, lastY + 1, stepSizeY)
      [] pc = "append" -> 2 * Big
      [] pc = "iterate" ->
            1 + Len(xOffsets) * Len(yOffsets) * (Len(transforms) + 1) - Len(windows)
      [] OTHER -> 0

\* C10 (termination): every step of a call decreases a natural-number measure,
\* and a call that has neither returned nor raised can step; so every call
\* ends, after finitely many steps, in a return or an exception, whatever the
\* sign of the step size.
C10_Termination ==
    /\ [](Measure \in Nat /\ Measure <= 5 * Big)
    /\ [](pc \notin {"done", "error"} => ENABLED Next)
    /\ [][Measure' < Measure]_vars

\* A call that returned although its step size was negative.
C10_Witness ==
    /\ Returned
    /\ stepSizeX < 0 /\ stepSizeY < 0
    /\ Len(windows) >= 1

====
